---- MODULE Spec2Model ----
(***************************************************************************)
(* Model of the author-publications ingestion of research-explorer:        *)
(* POST /api/authorPublications in its three builds of server.js           *)
(*   "legacy"  src/research-explorer/server.js  (SS + Crossref + OpenAlex) *)
(*   "multi"   src/unnamed/part_003             (SS + Crossref + OpenAlex) *)
(*   "budget"  src/unnamed/part_004             (OpenAlex only, budgeted)  *)
(*                                                                         *)
(* Text is modelled as a sequence of one-character strings, so that        *)
(* toLowerCase, trim, includes, split and template strings are computed.   *)
(* A missing / null / undefined text field is the empty sequence, and a    *)
(* missing year is 0: the code reads every field through `x || ''` or      *)
(* `x || null`, which maps the falsy values to one.                        *)
(***************************************************************************)
EXTENDS Integers, Sequences, FiniteSets, TLC

VARIABLES
  build,           \* which server.js is deployed
  req,             \* req.body: name, affiliation, department, next.oaCursor
  pc,              \* the await the handler is at
  best,            \* the Semantic Scholar author chosen, or none
  author,          \* the OpenAlex author chosen (target / author), or none
  offset,          \* Semantic Scholar pages requested so far
  pubsSS,          \* raw Semantic Scholar items accumulated by the paging loop
  publicationsSS,  \* filtered and normalized, per adapter
  publicationsCR,
  publicationsOA,
  pubs,            \* part_004: publications accumulated by the cursor loop
  cursor,          \* part_004: the works cursor, empty when null
  publications,    \* the merged list
  metrics,         \* the metrics object, or none
  res,             \* the response sent, status 0 while none is
  now,             \* part_004: Date.now() - started, in ms
  received,        \* raw work records the providers handed out so far,
                   \* a page that was repeated not counted
  fetched,         \* part_004: works pages read in this run
  saveCalls,       \* calls of saveFacultyAndPublications
  saved,           \* what was handed to it and the metrics row it stored
  asked,           \* providers a network call was issued to
  hung,            \* part_004: a works-page fetch was aborted by its timer
  log,             \* part_004: which call of a resumed sequence this is,
                   \* the works pages requested over the sequence, and why
                   \* the works loop of this call was left
  call,            \* a helper function called on its own: arguments, result
  db,              \* the store of persist.js: its rows, and the calls of
                   \* saveFacultyAndPublications under way
  entry            \* api/index.js: cachedHandler, cachedError, and what the
                   \* invocations so far did

vars == <<build, req, pc, best, author, offset, pubsSS, publicationsSS,
          publicationsCR, publicationsOA, pubs, cursor, publications, metrics,
          res, now, received, fetched, saveCalls, saved, asked, hung, log,
          call, db, entry>>

---------------------------------------------------------------------------
(* Text primitives: the String.prototype methods the handlers use         *)

Empty == << >>

UpperCase ==
  {"A", "B", "C", "D", "E", "F", "G", "H", "I", "J", "K", "L", "M",
   "N", "O", "P", "Q", "R", "S", "T", "U", "V", "W", "X", "Y", "Z"}

\* the lower-case letter of each upper-case letter
LowerOf ==
  "A" :> "a" @@ "B" :> "b" @@ "C" :> "c" @@ "D" :> "d" @@ "E" :> "e"
  @@ "F" :> "f" @@ "G" :> "g" @@ "H" :> "h" @@ "I" :> "i" @@ "J" :> "j"
  @@ "K" :> "k" @@ "L" :> "l" @@ "M" :> "m" @@ "N" :> "n" @@ "O" :> "o"
  @@ "P" :> "p" @@ "Q" :> "q" @@ "R" :> "r" @@ "S" :> "s" @@ "T" :> "t"
  @@ "U" :> "u" @@ "V" :> "v" @@ "W" :> "w" @@ "X" :> "x" @@ "Y" :> "y"
  @@ "Z" :> "z"

\* String.prototype.toLowerCase on one character
LowerChar(c) == IF c \in UpperCase THEN LowerOf[c] ELSE c

toLowerCase(s) == [i \in 1..Len(s) |-> LowerChar(s[i])]

\* \s of the regular expressions
IsSpace(c) == c = " "

RECURSIVE TrimLeft(_)
TrimLeft(s) ==
  IF s = Empty THEN Empty
  ELSE IF IsSpace(Head(s)) THEN TrimLeft(Tail(s)) ELSE s

RECURSIVE TrimRight(_)
TrimRight(s) ==
  IF s = Empty THEN Empty
  ELSE IF IsSpace(s[Len(s)]) THEN TrimRight(SubSeq(s, 1, Len(s) - 1)) ELSE s

\* String.prototype.trim
trim(s) == TrimRight(TrimLeft(s))

\* s.replace(/\s+/g, ' ')
RECURSIVE CollapseSpaces(_)
CollapseSpaces(s) ==
  IF s = Empty THEN Empty
  ELSE IF IsSpace(Head(s))
       THEN <<" ">> \o CollapseSpaces(TrimLeft(s))
       ELSE <<Head(s)>> \o CollapseSpaces(Tail(s))

\* String.prototype.includes
includes(h, n) ==
  \E i \in 0..(Len(h) - Len(n)) : SubSeq(h, i + 1, i + Len(n)) = n

\* String.prototype.startsWith
startsWith(s, p) == Len(p) <= Len(s) /\ SubSeq(s, 1, Len(p)) = p

\* String.prototype.endsWith
endsWith(s, p) ==
  Len(p) <= Len(s) /\ SubSeq(s, Len(s) - Len(p) + 1, Len(s)) = p

\* s.split(/[<delims>]+/).filter(Boolean): the non-empty tokens of s
RECURSIVE SplitFrom(_, _, _, _)
SplitFrom(s, delims, cur, out) ==
  IF s = Empty THEN (IF cur = Empty THEN out ELSE Append(out, cur))
  ELSE IF Head(s) \in delims
       THEN SplitFrom(Tail(s), delims, Empty,
                      IF cur = Empty THEN out ELSE Append(out, cur))
       ELSE SplitFrom(Tail(s), delims, Append(cur, Head(s)), out)

SplitTokens(s, delims) == SplitFrom(s, delims, Empty, << >>)

Digit(d) ==
  CASE d = 0 -> "0" [] d = 1 -> "1" [] d = 2 -> "2" [] d = 3 -> "3"
    [] d = 4 -> "4" [] d = 5 -> "5" [] d = 6 -> "6" [] d = 7 -> "7"
    [] d = 8 -> "8" [] d = 9 -> "9"

\* String(n) of a positive integer, as a template string prints it
RECURSIVE NumberText(_)
NumberText(n) ==
  IF n < 10 THEN <<Digit(n)>> ELSE NumberText(n \div 10) \o <<Digit(n % 10)>>

\* `${p.year || ''}`
YearText(y) == IF y = 0 THEN Empty ELSE NumberText(y)

---------------------------------------------------------------------------
(* Name / affiliation matcher                                              *)

Normalize(s) == CollapseSpaces(trim(toLowerCase(s)))

\* part_003 namesSimilar
namesSimilar(a, b) ==
  IF a = Empty \/ b = Empty THEN FALSE
  ELSE LET A == Normalize(a)
           B == Normalize(b)
           ap == SplitTokens(A, {" ", "."})
           bp == SplitTokens(B, {" ", "."})
       IN IF A = B THEN TRUE
          ELSE IF includes(A, B) \/ includes(B, A) THEN TRUE
          ELSE IF Len(ap) = 0 \/ Len(bp) = 0 THEN FALSE
          ELSE IF ap[Len(ap)] # bp[Len(bp)] THEN FALSE
          ELSE LET aFirst == ap[1]
                   bFirst == bp[1]
               IN \/ aFirst = bFirst
                  \/ (Len(aFirst) = 1 /\ startsWith(bFirst, aFirst))
                  \/ (Len(bFirst) = 1 /\ startsWith(aFirst, bFirst))

\* server.js namesSimilar (the module-level one, lines 41-80, which the
\* handler calls)
namesSimilarLegacy(a, b) ==
  IF a = Empty \/ b = Empty THEN FALSE
  ELSE LET cleanA == Normalize(a)
           cleanB == Normalize(b)
           aParts == SplitTokens(cleanA, {" ", "."})
           bParts == SplitTokens(cleanB, {" ", "."})
       IN IF cleanA = cleanB THEN TRUE
          ELSE IF includes(cleanA, cleanB) \/ includes(cleanB, cleanA) THEN TRUE
          ELSE IF Len(aParts) >= 1 /\ Len(bParts) >= 1
               THEN IF aParts[Len(aParts)] # bParts[Len(bParts)] THEN FALSE
                    ELSE IF Len(aParts[1]) = 1 \/ Len(bParts[1]) = 1 THEN TRUE
                    ELSE aParts[1][1] = bParts[1][1]
               ELSE FALSE

\* part_004 handler-local namesSimilar
namesSimilarLocal(a, b) ==
  LET A == Normalize(a)
      B == Normalize(b)
  IN IF A = Empty \/ B = Empty THEN FALSE
     ELSE IF A = B \/ includes(A, B) \/ includes(B, A) THEN TRUE
     ELSE LET ap == SplitTokens(A, {" "})
              bp == SplitTokens(B, {" "})
              aFirst == ap[1]
              bFirst == bp[1]
          IN IF ap[Len(ap)] # bp[Len(bp)] THEN FALSE
             ELSE \/ aFirst = bFirst
                  \/ (Len(aFirst) = 1 /\ startsWith(bFirst, aFirst))
                  \/ (Len(bFirst) = 1 /\ startsWith(aFirst, bFirst))

\* part_003 includesAff(text, aff, dept)
includesAff(text, aff, dept) ==
  LET T == toLowerCase(text)
      A == toLowerCase(aff)
      D == toLowerCase(dept)
  IN IF A # Empty /\ ~includes(T, A) THEN FALSE
     ELSE IF D # Empty /\ ~includes(T, D) THEN FALSE
     ELSE TRUE

\* server.js includesAff(affiliation, ...searchTerms), lines 32-38
includesAffLegacy(affiliation, aff, dept) ==
  IF affiliation = Empty THEN FALSE
  ELSE \E term \in {aff, dept} :
         term # Empty /\ includes(toLowerCase(affiliation), toLowerCase(term))

---------------------------------------------------------------------------
(* Bounds of the model                                                     *)

\* Raw work records one run receives from all providers together
MaxRecords == 2

\* Items in one single-page provider answer (Crossref rows, OpenAlex works
\* of the multi-provider builds)
MaxPage == 2

\* Candidates in one author-search answer
MaxCands == 2

\* Stand-in for pageSize = 100 of the Semantic Scholar loop: a page of this
\* many items is a full page
SS_PAGE == 1

\* Stand-in for WORKS_PAGE = 100 of the budgeted OpenAlex loop
WORKS_PAGE == 1

\* Calls of one resumed sequence: the first call and its follow-ups
MaxRuns == 2

\* Stand-in for MAX_PUBS (50..1000, default 300), the soft cap
MAX_PUBS == 2

---------------------------------------------------------------------------
(* The data the providers answer with                                      *)

NameFull  == <<"A", "n", " ", "K", "h">>
NameInit  == <<"A", ".", " ", "K", "h">>
NameOther == <<"B", "o", " ", "P", "a">>
AffTC     == <<"T", "c">>
DeptAI    == <<"a", "i">>
InstTCAI  == <<"t", "c", " ", "A", "i">>

OrcidPrefix ==
  <<"h", "t", "t", "p", "s", ":", "/", "/", "o", "r", "c", "i", "d", ".",
    "o", "r", "g", "/">>
DoiPrefix ==
  <<"h", "t", "t", "p", "s", ":", "/", "/", "d", "o", "i", ".", "o", "r",
    "g", "/">>
OrcidQ == <<"7">>
OrcidZ == <<"8">>

\* One author entry of a raw work: SS {name}, Crossref {given, family,
\* affiliation[]}, OpenAlex authorship {author{display_name, orcid},
\* institutions[]}
AuQ == [name |-> NameFull, orcid |-> OrcidPrefix \o OrcidQ, aff |-> InstTCAI]
AuI == [name |-> NameInit, orcid |-> Empty, aff |-> Empty]
AuO == [name |-> NameOther, orcid |-> OrcidPrefix \o OrcidZ, aff |-> InstTCAI]

\* Raw works: the provider items the handlers read title, year, url, doi
\* and the author entries of
Works ==
  { [title |-> <<"t">>, year |-> 2020, url |-> <<"u">>, doi |-> <<"x">>,
     authors |-> <<AuQ>>],
    [title |-> <<"T">>, year |-> 2021, url |-> <<"v">>, doi |-> <<"X">>,
     authors |-> <<AuQ>>],
    [title |-> <<"t">>, year |-> 2020, url |-> <<"u">>, doi |-> <<"y">>,
     authors |-> <<AuQ>>],
    [title |-> Empty, year |-> 0, url |-> Empty, doi |-> Empty,
     authors |-> <<AuQ>>],
    [title |-> <<"T">>, year |-> 2020, url |-> Empty, doi |-> Empty,
     authors |-> <<AuI>>],
    [title |-> <<"t">>, year |-> 2020, url |-> <<"u">>, doi |-> <<"x">>,
     authors |-> <<AuO>>] }

\* Sequences over S of length 0..n
SeqUpTo(S, n) == UNION {[1..k -> S] : k \in 0..n}

Min(a, b) == IF a <= b THEN a ELSE b
Max(a, b) == IF a >= b THEN a ELSE b

\* a.map(x => x.name).filter(Boolean)
AuthorNames(w) ==
  LET names == [i \in 1..Len(w.authors) |-> w.authors[i].name]
      nonEmpty(n) == n # Empty
  IN SelectSeq(names, nonEmpty)

\* x.URL || (x.DOI ? `https://doi.org/${x.DOI}` : '')
UrlOrDoiUrl(w) ==
  IF w.url # Empty THEN w.url
  ELSE IF w.doi # Empty THEN DoiPrefix \o w.doi ELSE Empty

\* The .map(...) of each adapter: the common publication record.  venue,
\* type and abstract are copied through and read by nothing; they are left
\* out of the record.
NormalizeSS(w) ==
  [title |-> w.title, year |-> w.year, url |-> w.url, doi |-> w.doi,
   authors |-> AuthorNames(w), origin |-> "SS"]

NormalizeCR(w) ==
  [title |-> w.title, year |-> w.year, url |-> UrlOrDoiUrl(w), doi |-> w.doi,
   authors |-> AuthorNames(w), origin |-> "CR"]

NormalizeOA(w) ==
  [title |-> w.title, year |-> w.year, url |-> UrlOrDoiUrl(w), doi |-> w.doi,
   authors |-> AuthorNames(w), origin |-> "OA"]

MapSeq(s, f(_)) == [i \in 1..Len(s) |-> f(s[i])]

HasTitle(p) == p.title # Empty

None == << >>
Some(x) == <<x>>

\* Array.prototype.join
RECURSIVE Join(_, _)
Join(parts, sep) ==
  IF parts = << >> THEN Empty
  ELSE IF Len(parts) = 1 THEN parts[1]
  ELSE parts[1] \o sep \o Join(Tail(parts), sep)

\* s.replace(pat, ''): the first occurrence of pat removed
ReplaceFirst(s, pat) ==
  IF ~includes(s, pat) THEN s
  ELSE LET i == CHOOSE k \in 0..(Len(s) - Len(pat)) :
                  /\ SubSeq(s, k + 1, k + Len(pat)) = pat
                  /\ \A j \in 0..(k - 1) : SubSeq(s, j + 1, j + Len(pat)) # pat
       IN SubSeq(s, 1, i) \o SubSeq(s, i + Len(pat) + 1, Len(s))

\* Author candidates of Semantic Scholar's author search
SSCands ==
  { [authorId |-> "s1", name |-> NameOther, aliases |-> << >>,
     affiliations |-> << >>],
    [authorId |-> "s2", name |-> NameFull, aliases |-> << >>,
     affiliations |-> <<InstTCAI>>],
    [authorId |-> "", name |-> NameFull, aliases |-> <<NameInit>>,
     affiliations |-> << >>] }

\* Author candidates of OpenAlex's author search
OACands ==
  { [id |-> "o1", display_name |-> NameOther, inst |-> Empty, orcid |-> Empty],
    [id |-> "o2", display_name |-> NameFull, inst |-> InstTCAI,
     orcid |-> OrcidPrefix \o OrcidQ],
    [id |-> "", display_name |-> NameInit, inst |-> Empty, orcid |-> Empty],
    [id |-> "o3", display_name |-> NameOther, inst |-> Empty,
     orcid |-> OrcidPrefix \o OrcidZ] }

---------------------------------------------------------------------------
(* Identity resolver                                                       *)

\* The first index of the greatest score: `s > bestScore` keeps the earlier
\* candidate on a tie, and so does the stable sort by descending score
RECURSIVE ArgMaxFrom(_, _, _, _)
ArgMaxFrom(scores, i, bestI, bestScore) ==
  IF i > Len(scores) THEN bestI
  ELSE IF scores[i] > bestScore
       THEN ArgMaxFrom(scores, i + 1, i, scores[i])
       ELSE ArgMaxFrom(scores, i + 1, bestI, bestScore)

ArgMax(scores) == ArgMaxFrom(scores, 1, 0, -1)

SSFields(c) == toLowerCase(Join(<<c.name>> \o c.aliases \o c.affiliations, <<" ">>))

\* part_003: score of one Semantic Scholar candidate
ScoreSS(c, name, affiliation, department) ==
  LET affL == toLowerCase(affiliation)
      depL == toLowerCase(department)
  IN (IF toLowerCase(c.name) = toLowerCase(name) THEN 2 ELSE 0)
     + (IF affL # Empty /\ includes(SSFields(c), affL) THEN 3 ELSE 0)
     + (IF depL # Empty /\ includes(SSFields(c), depL) THEN 1 ELSE 0)

\* part_003: best = candidates.map(score).sort(desc)[0]?.c || candidates[0] || null
BestSS(candidates, name, affiliation, department) ==
  IF candidates = << >> THEN None
  ELSE LET scores == [i \in 1..Len(candidates) |->
                        ScoreSS(candidates[i], name, affiliation, department)]
       IN Some(candidates[ArgMax(scores)])

AffJoined(c) == toLowerCase(Join(c.affiliations, <<" ">>))

\* server.js: pool restricted to the affiliation, exact name first, else score
BestLegacy(candidates, name, affiliation, department) ==
  IF candidates = << >> THEN None
  ELSE LET affL == toLowerCase(affiliation)
           hasAff(c) == includes(AffJoined(c), affL)
           withAff == IF affL # Empty THEN SelectSeq(candidates, hasAff)
                      ELSE candidates
           pool == IF Len(withAff) > 0 THEN withAff ELSE candidates
           isExact(c) == toLowerCase(c.name) = toLowerCase(name)
           exact == SelectSeq(pool, isExact)
           scores == [i \in 1..Len(pool) |->
                        ScoreSS(pool[i], name, affiliation, department)]
       IN IF exact # << >> THEN Some(exact[1]) ELSE Some(pool[ArgMax(scores)])

\* server.js: bestHasAff, the gate of the Semantic Scholar paging
BestHasAff(b, affiliation) ==
  /\ b # None
  /\ \/ affiliation = Empty
     \/ \E i \in 1..Len(b[1].affiliations) :
          /\ b[1].affiliations[i] # Empty
          /\ includes(toLowerCase(b[1].affiliations[i]), toLowerCase(affiliation))

\* score of one OpenAlex candidate; the exact-name weight is 3 in the
\* multi-provider builds and 2 in the budgeted build
ScoreOA(c, name, affiliation, department, nameWeight) ==
  LET affL == toLowerCase(affiliation)
      depL == toLowerCase(department)
      inst == toLowerCase(c.inst)
  IN (IF toLowerCase(c.display_name) = toLowerCase(name) THEN nameWeight ELSE 0)
     + (IF affL # Empty /\ includes(inst, affL) THEN 2 ELSE 0)
     + (IF depL # Empty /\ includes(inst, depL) THEN 1 ELSE 0)

\* target = bestOA || candidates[0]   /   author = best || cands[0] || null
BestOA(candidates, name, affiliation, department, nameWeight) ==
  IF candidates = << >> THEN None
  ELSE LET scores == [i \in 1..Len(candidates) |->
                        ScoreOA(candidates[i], name, affiliation, department,
                                nameWeight)]
       IN Some(candidates[ArgMax(scores)])

\* target?.orcid?.replace('https://orcid.org/', '') || ''
OrcidOf(c) == ReplaceFirst(c.orcid, OrcidPrefix)

---------------------------------------------------------------------------
(* Attribution filters of the adapters                                     *)

SomeAuthor(w, ok(_)) == \E i \in 1..Len(w.authors) : ok(w.authors[i])

\* part_003: authors.some(a => a?.name && namesSimilar(a.name, name))
AttribSS(w, name) ==
  LET ok(a) == a.name # Empty /\ namesSimilar(a.name, name)
  IN SomeAuthor(w, ok)

\* server.js: the same filter over its own namesSimilar
AttribSSLegacy(w, name) ==
  LET ok(a) == a.name # Empty /\ namesSimilarLegacy(a.name, name)
  IN SomeAuthor(w, ok)

\* part_003 Crossref filter: a similar author, and with a hint some author
\* affiliation that includes the hints
AttribCR(w, name, affiliation, department) ==
  LET nameOk(a) == namesSimilar(trim(a.name), name)
      affOk(a) == a.aff # Empty /\ includesAff(a.aff, affiliation, department)
  IN /\ SomeAuthor(w, nameOk)
     /\ \/ (affiliation = Empty /\ department = Empty)
        \/ SomeAuthor(w, affOk)

\* server.js Crossref filter
AttribCRLegacy(w, name, affiliation, department) ==
  LET nameOk(a) == namesSimilarLegacy(trim(a.name), name)
      affOk(a) == includesAffLegacy(a.aff, affiliation, department)
  IN /\ SomeAuthor(w, nameOk)
     /\ \/ (affiliation = Empty /\ department = Empty)
        \/ SomeAuthor(w, affOk)

\* A filter that takes any authorship carrying an ORCID
AnyOrcid(w, orcid) ==
  LET ok(a) == a.orcid # Empty
  IN SomeAuthor(w, ok)

\* a.author.orcid && a.author.orcid.endsWith(orcid)
OrcidMatch(w, orcid) ==
  LET ok(a) == a.orcid # Empty /\ endsWith(a.orcid, orcid)
  IN SomeAuthor(w, ok)

\* auths.map(a => institutions joined).join(' ')
InstStr(w) == Join([i \in 1..Len(w.authors) |-> w.authors[i].aff], <<" ">>)

\* part_003 OpenAlex filter
AttribOA(w, name, affiliation, department, targetOrcid) ==
  LET nameOk(a) == namesSimilar(a.name, name)
  IN IF targetOrcid # Empty THEN OrcidMatch(w, targetOrcid)
     ELSE /\ SomeAuthor(w, nameOk)
          /\ \/ (affiliation = Empty /\ department = Empty)
             \/ includesAff(InstStr(w), affiliation, department)

\* server.js OpenAlex filter
AttribOALegacy(w, name, affiliation, department, targetOrcid) ==
  LET nameOk(a) == namesSimilarLegacy(a.name, name)
  IN IF targetOrcid # Empty THEN OrcidMatch(w, targetOrcid)
     ELSE /\ SomeAuthor(w, nameOk)
          /\ \/ (affiliation = Empty /\ department = Empty)
             \/ includesAffLegacy(InstStr(w), affiliation, department)

\* part_004 works batch loop: nameOk
AttribBudget(w, name, orcid) ==
  LET nameOk(a) == namesSimilarLocal(a.name, name)
  IN IF orcid # Empty THEN OrcidMatch(w, orcid) ELSE SomeAuthor(w, nameOk)

---------------------------------------------------------------------------
(* Merge / dedup                                                           *)

DoiTag == <<"d", "o", "i", ":">>
UrlTag == <<"u", "r", "l", ":">>
TyTag  == <<"t", "y", ":">>
Sep    == <<":", ":">>

\* part_003: (p.url && p.url.toLowerCase()) || `${title.toLowerCase()}::${year || ''}`
KeyMulti(p) ==
  IF p.url # Empty THEN toLowerCase(p.url)
  ELSE toLowerCase(p.title) \o Sep \o YearText(p.year)

\* server.js: the same key
KeyLegacy(p) ==
  IF p.url # Empty THEN toLowerCase(p.url)
  ELSE toLowerCase(p.title) \o Sep \o YearText(p.year)

\* part_004: doi -> url -> title+year
KeyBudget(p) ==
  IF p.doi # Empty THEN DoiTag \o toLowerCase(p.doi)
  ELSE IF p.url # Empty THEN UrlTag \o toLowerCase(p.url)
  ELSE TyTag \o toLowerCase(p.title) \o Sep \o YearText(p.year)

\* A merge in which a later record replaces an earlier one of its key:
\* a record is kept only when no later record carries its key
RECURSIVE KeepLatest(_, _, _, _, _)
KeepLatest(list, keys, i, seen, out) ==
  IF i > Len(list) THEN out
  ELSE IF \E j \in (i + 1)..Len(list) : keys[j] = keys[i]
       THEN KeepLatest(list, keys, i + 1, seen, out)
       ELSE KeepLatest(list, keys, i + 1, seen \cup {keys[i]},
                       Append(out, list[i]))

\* A merge whose walk starts one record late
RECURSIVE KeepAfterFirst(_, _, _, _, _)
KeepAfterFirst(list, keys, i, seen, out) ==
  IF i = 1 /\ Len(list) >= 1
  THEN KeepAfterFirst(list, keys, 2, seen, out)
  ELSE IF i > Len(list) THEN out
  ELSE IF keys[i] \in seen
       THEN KeepAfterFirst(list, keys, i + 1, seen, out)
       ELSE KeepAfterFirst(list, keys, i + 1, seen \cup {keys[i]},
                           Append(out, list[i]))

\* The loop the three builds share: walk the list, keep a record when its
\* key was not seen yet (seen.has / byKey.has), in walking order
RECURSIVE KeepUnseen(_, _, _, _, _)
KeepUnseen(list, keys, i, seen, out) ==
  IF i > Len(list) THEN out
  ELSE IF keys[i] \in seen
       THEN KeepUnseen(list, keys, i + 1, seen, out)
       ELSE KeepUnseen(list, keys, i + 1, seen \cup {keys[i]},
                       Append(out, list[i]))

\* part_003: combined.filter(p => !seen.has(key) ...)
DedupeMulti(combined) ==
  KeepUnseen(combined, MapSeq(combined, KeyMulti), 1, {}, << >>)

\* server.js: for (const p of combined) { if (seenKeys.has(key)) continue; ... }
DedupeLegacy(combined) ==
  KeepUnseen(combined, MapSeq(combined, KeyLegacy), 1, {}, << >>)

\* part_004: byKey Map, Array.from(byKey.values())
DedupeBudget(list) ==
  KeepUnseen(list, MapSeq(list, KeyBudget), 1, {}, << >>)

---------------------------------------------------------------------------
(* The handler of POST /api/authorPublications                             *)

Builds == {"legacy", "multi", "budget"}

Star == <<"*">>
\* the cursor OpenAlex hands out for its k-th following page
CursorText(k) == <<"c">> \o NumberText(k)

Requests(b) ==
  { [name |-> n, affiliation |-> h[1], department |-> h[2], next |-> c] :
      n \in {Empty, NameFull},
      h \in {<<Empty, Empty>>, <<AffTC, DeptAI>>},
      c \in IF b = "budget" THEN {Empty, CursorText(1)} ELSE {Empty} }

\* What one provider call can do: answer 2xx with a well-formed body, answer
\* non-2xx, reject (network error), or answer 2xx with a body json() throws on
Outcomes == {"ok", "non2xx", "throw", "badjson"}

\* maxPages = 5 (server.js); offset < 500 in steps of pageSize = 100 (part_003)
SS_MAX_PAGES == 5

NoResponse ==
  [status |-> 0, error |-> "", next |-> Empty, author |-> None, facultyId |-> ""]

\* A response that names no author
ReplyNobody(status, error, next, who, facultyId) ==
  [status |-> status, error |-> error, next |-> next, author |-> None,
   facultyId |-> facultyId]

Reply(status, error, next, who, facultyId) ==
  [status |-> status, error |-> error, next |-> next, author |-> who,
   facultyId |-> facultyId]

\* author-detail bodies: citationCount / hIndex present or missing
DetailBodies ==
  { [citationCount |-> Some(10), hIndex |-> Some(3)],
    [citationCount |-> Some(10), hIndex |-> None],
    [citationCount |-> None, hIndex |-> None] }

\* no helper is called on its own during a run of the handler
NoCall == [fn |-> "none"]

\* the callers of saveFacultyAndPublications
Callers == {1, 2}

\* a call of saveFacultyAndPublications that was not made
NoSave == [pc |-> "off", publications |-> << >>, i |-> 0, existingPub |-> 0,
           savedPublications |-> 0]

\* an empty store with no call under way
NoStore ==
  [faculty |-> 0, facultyMetrics |-> 0, publication |-> << >>,
   overlapped |-> FALSE, save |-> [c \in Callers |-> NoSave]]

\* Invocations of the serverless entry handler, in the order they arrive
MaxInvocations == 4

Invocations == 1..MaxInvocations

\* an invocation that has not arrived: what it will find cached when it
\* does, whether it called import(), and its answer
NotInvoked ==
  [pc |-> "new", sawHandler |-> None, sawError |-> None, loaded |-> FALSE,
   answer |-> None]

\* let cachedHandler = null; let cachedError = null; no invocation yet.
\* made counts the handlers serverless(app) built, loads the import() calls;
\* module is how import('../server.js') followed by serverless(app) ended,
\* once it has
NoEntry ==
  [cachedHandler |-> None, cachedError |-> None, module |-> None,
   loads |-> 0, made |-> 0, overlapped |-> FALSE,
   inv |-> [i \in Invocations |-> NotInvoked]]

Init ==
  /\ build \in Builds
  /\ req \in Requests(build)
  /\ pc = "start"
  /\ best = None
  /\ author = None
  /\ offset = 0
  /\ pubsSS = << >>
  /\ publicationsSS = << >>
  /\ publicationsCR = << >>
  /\ publicationsOA = << >>
  /\ pubs = << >>
  /\ cursor = Empty
  /\ publications = << >>
  /\ metrics = None
  /\ res = NoResponse
  /\ now = 0
  /\ received = 0
  /\ fetched = 0
  /\ saveCalls = 0
  /\ saved = None
  /\ asked = {}
  /\ hung = FALSE
  /\ log = [run |-> 1, requested |-> << >>, stopped |-> ""]
  /\ call = NoCall
  /\ db = NoStore
  /\ entry = NoEntry

\* A handler without the name check
NameNeverMissing(name) == FALSE

\* if (!name)
NameMissing(name) == name = Empty

\* const { name, ... } = req.body || {}; if (!name) return res.status(400)...
Start ==
  /\ pc = "start"
  /\ IF NameMissing(req.name)
     THEN /\ res' = Reply(400, "Missing name", Empty, None, "")
          /\ pc' = "done"
     ELSE /\ res' = res
          /\ pc' = IF build = "budget" THEN "oaAuthor" ELSE "ssSearch"
  /\ UNCHANGED <<db, entry, call, log, build, req, best, author, offset, pubsSS, publicationsSS,
                 publicationsCR, publicationsOA, pubs, cursor, publications,
                 metrics, now, received, fetched, saveCalls, saved, asked, hung>>

\* part_003: Semantic Scholar author search, inside its own try
SSSearchMulti ==
  /\ pc = "ssSearch" /\ build = "multi"
  /\ asked' = asked \cup {"SS"}
  /\ \E out \in Outcomes :
       IF out = "ok"
       THEN \E candidates \in SeqUpTo(SSCands, MaxCands) :
              /\ best' = BestSS(candidates, req.name, req.affiliation,
                                req.department)
       ELSE /\ best' = None
  /\ pc' = "ssPage"
  /\ UNCHANGED <<db, entry, call, log, build, req, author, offset, pubsSS, publicationsSS,
                 publicationsCR, publicationsOA, pubs, cursor, publications,
                 metrics, res, now, received, fetched, saveCalls, saved, hung>>

\* server.js: Semantic Scholar author search, outside any inner try
SSSearchLegacy ==
  /\ pc = "ssSearch" /\ build = "legacy"
  /\ asked' = asked \cup {"SS"}
  /\ \E out \in Outcomes :
       CASE out = "ok" ->
              \E candidates \in SeqUpTo(SSCands, MaxCands) :
                /\ best' = BestLegacy(candidates, req.name, req.affiliation,
                                      req.department)
                /\ pc' = "ssPage"
                /\ UNCHANGED res
         [] out = "non2xx" ->
              /\ res' = Reply(502, "Semantic Scholar search error", Empty, None, "")
              /\ pc' = "done"
              /\ best' = best
         [] OTHER ->
              /\ res' = Reply(500, "Unexpected error", Empty, None, "")
              /\ pc' = "done"
              /\ best' = best
  /\ UNCHANGED <<db, entry, call, log, build, req, author, offset, pubsSS, publicationsSS,
                 publicationsCR, publicationsOA, pubs, cursor, publications,
                 metrics, now, received, fetched, saveCalls, saved, hung>>

\* best?.authorId (part_003); best && best.authorId && bestHasAff (server.js)
SSPagingOn ==
  /\ best # None
  /\ best[1].authorId # ""
  /\ build = "legacy" => BestHasAff(best, req.affiliation)

\* pubs.filter(attribution).map(normalize).filter(p => p.title)
FilterSS(items) ==
  LET keepM(w) == AttribSS(w, req.name)
      keepL(w) == AttribSSLegacy(w, req.name)
      kept == IF build = "legacy" THEN SelectSeq(items, keepL)
              ELSE SelectSeq(items, keepM)
  IN SelectSeq(MapSeq(kept, NormalizeSS), HasTitle)

\* A loop without maxPages
PagesLeftAlways(n) == TRUE

\* page <= maxPages (server.js); offset < 500 (part_003)
PagesLeft(n) == n < SS_MAX_PAGES

\* the page the provider answered last
LastPage == SubSeq(pubsSS, Len(pubsSS) - SS_PAGE + 1, Len(pubsSS))

\* data of one answer of /author/{id}/papers: records not handed out
\* before or, when none of those is left, the records of the page before
\* once more
PapersPages ==
  SeqUpTo(Works, Min(SS_PAGE, MaxRecords - received))
    \cup (IF received = MaxRecords /\ Len(pubsSS) >= SS_PAGE
          THEN {LastPage} ELSE {})

\* One turn of the Semantic Scholar paging loop; the fetch and the json() are
\* not inside an inner try, so a rejection reaches the handler's outer catch
SSPage ==
  /\ pc = "ssPage"
  /\ IF SSPagingOn /\ PagesLeft(offset)
     THEN /\ asked' = asked \cup {"SS"}
          /\ offset' = offset + 1
          /\ \E out \in Outcomes :
               CASE out = "ok" ->
                      \E items \in PapersPages :
                        /\ pubsSS' = pubsSS \o items
                        /\ received' = IF Len(items) <= MaxRecords - received
                                       THEN received + Len(items)
                                       ELSE received
                        /\ IF Len(items) < SS_PAGE
                           THEN /\ publicationsSS' = FilterSS(pubsSS')
                                /\ pc' = "crossref"
                           ELSE /\ publicationsSS' = publicationsSS
                                /\ pc' = "ssPage"
                        /\ UNCHANGED res
                 [] out = "non2xx" ->
                      /\ publicationsSS' = FilterSS(pubsSS)
                      /\ pc' = "crossref"
                      /\ UNCHANGED <<pubsSS, received, res>>
                 [] OTHER ->
                      /\ res' = Reply(500, "Unexpected error", Empty, None, "")
                      /\ pc' = "done"
                      /\ UNCHANGED <<pubsSS, received, publicationsSS>>
     ELSE /\ publicationsSS' = FilterSS(pubsSS)
          /\ pc' = "crossref"
          /\ UNCHANGED <<asked, offset, pubsSS, received, res>>
  /\ UNCHANGED <<db, entry, call, log, build, req, best, author, publicationsCR, publicationsOA,
                 pubs, cursor, publications, metrics, now, fetched, saveCalls,
                 saved, hung>>

FilterCR(items) ==
  LET keepM(w) == AttribCR(w, req.name, req.affiliation, req.department)
      keepL(w) == AttribCRLegacy(w, req.name, req.affiliation, req.department)
      kept == IF build = "legacy" THEN SelectSeq(items, keepL)
              ELSE SelectSeq(items, keepM)
  IN SelectSeq(MapSeq(kept, NormalizeCR), HasTitle)

\* Crossref: one works query inside a try that swallows every failure
Crossref ==
  /\ pc = "crossref"
  /\ asked' = asked \cup {"CR"}
  /\ \E out \in Outcomes :
       IF out = "ok"
       THEN \E items \in SeqUpTo(Works, Min(MaxPage, MaxRecords - received)) :
              /\ publicationsCR' = FilterCR(items)
              /\ received' = received + Len(items)
       ELSE /\ publicationsCR' = << >>
            /\ received' = received
  /\ pc' = "oaSearch"
  /\ UNCHANGED <<db, entry, call, log, build, req, best, author, offset, pubsSS, publicationsSS,
                 publicationsOA, pubs, cursor, publications, metrics, res, now,
                 fetched, saveCalls, saved, hung>>

\* OpenAlex author search of the multi-provider builds (exact-name weight 3);
\* the whole OpenAlex block sits in one try
OASearch ==
  /\ pc = "oaSearch"
  /\ asked' = asked \cup {"OA"}
  /\ \E out \in Outcomes :
       IF out = "ok"
       THEN \E candidates \in SeqUpTo(OACands, MaxCands) :
              LET target == BestOA(candidates, req.name, req.affiliation,
                                   req.department, 3)
              IN /\ author' = target
                 /\ pc' = IF target # None /\ target[1].id # ""
                          THEN "oaWorks" ELSE "merge"
       ELSE /\ author' = None
            /\ pc' = "merge"
  /\ UNCHANGED <<db, entry, call, log, build, req, best, offset, pubsSS, publicationsSS,
                 publicationsCR, publicationsOA, pubs, cursor, publications,
                 metrics, res, now, received, fetched, saveCalls, saved, hung>>

FilterOA(items) ==
  LET orcid == OrcidOf(author[1])
      keepM(w) == AttribOA(w, req.name, req.affiliation, req.department, orcid)
      keepL(w) == AttribOALegacy(w, req.name, req.affiliation, req.department,
                                 orcid)
      kept == IF build = "legacy" THEN SelectSeq(items, keepL)
              ELSE SelectSeq(items, keepM)
  IN SelectSeq(MapSeq(kept, NormalizeOA), HasTitle)

\* OpenAlex works of the multi-provider builds: one page of up to 200
OAWorks ==
  /\ pc = "oaWorks"
  /\ \E out \in Outcomes :
       IF out = "ok"
       THEN \E items \in SeqUpTo(Works, Min(MaxPage, MaxRecords - received)) :
              /\ publicationsOA' = FilterOA(items)
              /\ received' = received + Len(items)
       ELSE /\ publicationsOA' = << >>
            /\ received' = received
  /\ pc' = "merge"
  /\ UNCHANGED <<db, entry, call, log, build, req, best, author, offset, pubsSS, publicationsSS,
                 publicationsCR, pubs, cursor, publications, metrics, res, now,
                 fetched, saveCalls, saved, asked, hung>>

Metrics(n, citations, h) ==
  [totalPublications |-> n, totalCitations |-> citations, hIndex |-> h]

\* Merge & dedupe, then the initial metrics object (lastUpdated is a date
\* and is left out)
Merge ==
  /\ pc = "merge"
  /\ LET combined == publicationsSS \o publicationsCR \o publicationsOA
     IN publications' = IF build = "legacy" THEN DedupeLegacy(combined)
                        ELSE DedupeMulti(combined)
  /\ metrics' = Some(Metrics(Len(publications'), None, None))
  /\ pc' = "ssDetail"
  /\ UNCHANGED <<db, entry, call, log, build, req, best, author, offset, pubsSS, publicationsSS,
                 publicationsCR, publicationsOA, pubs, cursor, res, now,
                 received, fetched, saveCalls, saved, asked, hung>>

\* Number.isFinite(x) ? x : metrics.field
Prefer(x, old) == IF x # None THEN x ELSE old

\* if (best?.authorId)
AsksSS(b) == b # None /\ b[1].authorId # ""

\* the metrics after a detail body came back: each field of the body
\* replaces the field of the metrics when it is a number
AfterDetail(m, body) ==
  Metrics(m.totalPublications, Prefer(body.citationCount, m.totalCitations),
          Prefer(body.hIndex, m.hIndex))

\* server.js: a metric is still null and Semantic Scholar resolved no author
AsksOA(m, b) == (m.totalCitations = None \/ m.hIndex = None) /\ b = None

\* Semantic Scholar author detail, inside try {} catch {}
SSDetail ==
  /\ pc = "ssDetail"
  /\ IF AsksSS(best)
     THEN /\ asked' = asked \cup {"SS"}
          /\ \E out \in Outcomes :
               IF out = "ok"
               THEN \E dj \in DetailBodies :
                      /\ metrics' = Some(AfterDetail(metrics[1], dj))
               ELSE /\ metrics' = metrics
     ELSE UNCHANGED <<asked, metrics>>
  /\ pc' = IF build = "legacy" THEN "oaDetail" ELSE "save"
  /\ UNCHANGED <<db, entry, call, log, build, req, best, author, offset, pubsSS, publicationsSS,
                 publicationsCR, publicationsOA, pubs, cursor, publications,
                 res, now, received, fetched, saveCalls, saved, hung>>

\* server.js: fallback to OpenAlex author metrics, only when Semantic Scholar
\* resolved no author; author search (per-page 1) and detail in one try
OADetail ==
  /\ pc = "oaDetail"
  /\ IF AsksOA(metrics[1], best)
     THEN /\ asked' = asked \cup {"OA"}
          /\ \E out \in Outcomes :
               IF out = "ok"
               THEN \E first \in SeqUpTo(OACands, 1), out2 \in Outcomes :
                      IF first # << >> /\ first[1].id # "" /\ out2 = "ok"
                      THEN \E od \in DetailBodies :
                             /\ metrics' = Some(AfterDetail(metrics[1], od))
                      ELSE /\ metrics' = metrics

               ELSE /\ metrics' = metrics
     ELSE UNCHANGED <<asked, metrics>>
  /\ pc' = "save"
  /\ UNCHANGED <<db, entry, call, log, build, req, best, author, offset, pubsSS, publicationsSS,
                 publicationsCR, publicationsOA, pubs, cursor, publications,
                 res, now, received, fetched, saveCalls, saved, hung>>

\* saveFacultyAndPublications resolves or throws
SaveOutcomes == {"ok", "throw"}

\* most publications of one save whose own upsert throws (caught per
\* publication, the publication is then left out of savedPublications)
MaxFailed == 1

\* how many publications of a save that resolves can be left out
Failed(list, out) ==
  IF out = "throw" THEN {0} ELSE 0..Min(MaxFailed, Len(list))

\* metrics.hIndex || 0
OrZero(x) == IF x = None THEN 0 ELSE x[1]

\* publications.map(p => ({ title, year, venue, doi, url, abstract,
\* externalIds: { [p.origin]: true } })): what part_003 and server.js hand
\* over of one publication
SavedFields(p) ==
  [title |-> p.title, year |-> p.year, url |-> p.url, doi |-> p.doi,
   origin |-> p.origin]

\* A hand-over that leaves the first publication out
HandedButFirst(b, list) ==
  IF list = << >> THEN list
  ELSE IF b = "budget" THEN Tail(list) ELSE MapSeq(Tail(list), SavedFields)

\* the publications argument of the save: the merged list itself in
\* part_004, the mapped list in part_003 and server.js
Handed(b, list) ==
  IF b = "budget" THEN list ELSE MapSeq(list, SavedFields)

\* saveFacultyAndPublications({ publications, metrics }): the list handed to
\* it and the facultyMetrics row it upserts, none when it throws; failed is
\* the number of publications whose upsert threw
saveFacultyAndPublications(list, m, out, failed) ==
  [publications |-> list,
   metrics |-> IF out = "throw" THEN None
               ELSE Some(Metrics(Len(list) - failed, OrZero(m.totalCitations),
                                 OrZero(m.hIndex)))]

\* ALWAYS save to DB, then res.json(...): the multi-provider builds
SaveAndRespond ==
  /\ pc = "save" /\ build # "budget"
  /\ saveCalls' = saveCalls + 1
  /\ \E out \in SaveOutcomes : \E failed \in Failed(publications, out) :
       /\ saved' = Some(saveFacultyAndPublications(
                           Handed(build, publications), metrics[1], out,
                           failed))
       \* facultyId: savedData?.faculty?.id || null (server.js only)
       /\ res' = Reply(200, "", Empty, best,
                       IF build = "legacy" /\ out = "ok" THEN "f1" ELSE "")
  /\ pc' = "done"
  /\ UNCHANGED <<db, entry, call, log, build, req, best, author, offset, pubsSS, publicationsSS,
                 publicationsCR, publicationsOA, pubs, cursor, publications,
                 metrics, now, received, fetched, asked, hung>>

---------------------------------------------------------------------------
(* part_004: the budgeted OpenAlex-only handler                            *)

BUDGET_MS == 6500

\* Time a provider takes to answer when it answers before the timer, time a
\* response body takes to arrive (the timer is cleared once fetch settles,
\* so json() waits unbounded), and time the save takes
Durations == {100, 2700}
BodyDurations == {0, 9000}
SaveDurations == {100, 4000}

\* the ms argument of the two fetchWithTimeout calls
CALL_TIMEOUT_MS == 3000

BudgetOutcomes == Outcomes \cup {"hang"}

\* timeLeft()
timeLeft(t) == Max(0, BUDGET_MS - t)

\* fetchWithTimeout: the abort timer, Math.min(ms, timeLeft())
Timer(ms, t) == Min(ms, timeLeft(t))

\* When a call made at t with timer T comes back, by outcome: a hang is
\* aborted at the timer, everything else settles before it after d, and a
\* body is read for d2 more
SettledAt(t, T, out, d, d2) ==
  CASE out = "hang" -> t + T
    [] out \in {"ok", "badjson"} -> t + d + d2
    [] OTHER -> t + d

\* 1) Find best author in OpenAlex (exact-name weight 2)
OAAuthorBudget ==
  /\ pc = "oaAuthor" /\ build = "budget"
  /\ asked' = asked \cup {"OA"}
  /\ \E out \in BudgetOutcomes, d \in Durations, d2 \in BodyDurations :
       /\ d < Timer(CALL_TIMEOUT_MS, now)
       /\ now' = SettledAt(now, Timer(CALL_TIMEOUT_MS, now), out, d, d2)
       /\ IF out = "ok"
          THEN \E cands \in SeqUpTo(OACands, MaxCands) :
                 /\ author' = BestOA(cands, req.name, req.affiliation,
                                     req.department, 2)
          ELSE /\ author' = None
  /\ IF author' = None
     THEN /\ res' = Reply(200, "", Empty, None, "")
          /\ pc' = "done"
          /\ cursor' = cursor
     ELSE /\ res' = res
          /\ pc' = "works"
          /\ cursor' = IF req.next # Empty THEN req.next ELSE Star
  /\ UNCHANGED <<db, entry, call, log, build, req, best, offset, pubsSS, publicationsSS,
                 publicationsCR, publicationsOA, pubs, publications, metrics,
                 received, fetched, saveCalls, saved, hung>>

\* highest cursor index a run can be handed
MaxCursor == MaxRuns * (MaxRecords + 2)

\* meta.next_cursor of the page after the one `c` names
NextCursor(c) ==
  IF c = Star THEN CursorText(1)
  ELSE CursorText(1 + CHOOSE k \in 1..MaxCursor : CursorText(k) = c)

\* the record pushed for a work; no title filter follows
NormalizeBudget(w) ==
  [title |-> w.title, year |-> w.year, url |-> UrlOrDoiUrl(w), doi |-> w.doi,
   authors |-> AuthorNames(w), origin |-> "OA"]

\* for (const w of batch) { if (pubs.length >= MAX_PUBS) break;
\*                          if (!nameOk) continue; pubs.push(...) }
RECURSIVE PushBatch(_, _, _, _)
PushBatch(acc, batch, name, orcid) ==
  IF batch = << >> THEN acc
  ELSE IF Len(acc) >= MAX_PUBS THEN acc
  ELSE IF ~AttribBudget(Head(batch), name, orcid)
       THEN PushBatch(acc, Tail(batch), name, orcid)
       ELSE PushBatch(Append(acc, NormalizeBudget(Head(batch))), Tail(batch),
                      name, orcid)

\* how many records of a page pass the test the inner loop applies
\* (nameOk)
Passing(batch, name, orcid) ==
  Len(SelectSeq(batch, LAMBDA w : AttribBudget(w, name, orcid)))

\* Why the works loop was left after a page that was read: the two breaks
\* at the end of the loop body, in the order the code tests them ("" while
\* the loop goes on)
StoppedBy(c, n, kept) ==
  IF c = Empty \/ n < WORKS_PAGE THEN "end"
  ELSE IF kept >= MAX_PUBS THEN "cap"
  ELSE ""

\* while (timeLeft() > 1000 && cursor && pubs.length < MAX_PUBS)
LoopGuard(t, c, n) == timeLeft(t) > 1000 /\ c # Empty /\ n < MAX_PUBS

\* One turn of the works loop (or its exit), followed on exit by the
\* synchronous dedupe and metrics
WorksPage ==
  /\ pc = "works"
  /\ IF LoopGuard(now, cursor, Len(pubs))
     THEN \E out \in BudgetOutcomes, d \in Durations, d2 \in BodyDurations :
            /\ d < Timer(CALL_TIMEOUT_MS, now)
            /\ now' = SettledAt(now, Timer(CALL_TIMEOUT_MS, now), out, d, d2)
            /\ hung' = (hung \/ out = "hang")
            /\ IF out = "ok"
               THEN \E batch \in SeqUpTo(Works, Min(WORKS_PAGE, MaxRecords - received)),
                       more \in BOOLEAN :
                      /\ pubs' = PushBatch(pubs, batch, req.name, OrcidOf(author[1]))
                      /\ cursor' = IF more THEN NextCursor(cursor) ELSE Empty
                      /\ received' = received + Len(batch)
                      /\ fetched' = fetched + 1
                      /\ pc' = IF \/ cursor' = Empty
                                  \/ Len(batch) < WORKS_PAGE
                                  \/ Len(pubs') >= MAX_PUBS
                               THEN "save" ELSE "works"
                      /\ log' = [requested |->
                                   Append(log.requested,
                                          [run |-> log.run, cursor |-> cursor,
                                           ok |-> TRUE]),
                                 stopped |->
                                   StoppedBy(cursor', Len(batch), Len(pubs')),
                                 run |-> log.run]
               ELSE /\ pc' = "save"
                    /\ log' = [requested |->
                                 Append(log.requested,
                                        [run |-> log.run, cursor |-> cursor,
                                         ok |-> FALSE]),
                               stopped |-> "failed", run |-> log.run]
                    /\ UNCHANGED <<pubs, cursor, received, fetched>>
     ELSE /\ pc' = "save"
          /\ log' = [log EXCEPT !.stopped = "budget"]
          /\ UNCHANGED <<pubs, cursor, received, fetched, now, hung>>
  /\ IF pc' = "save"
     THEN /\ publications' = DedupeBudget(pubs')
          /\ metrics' = Some(Metrics(Len(publications'), None, None))
     ELSE UNCHANGED <<publications, metrics>>
  /\ UNCHANGED <<db, entry, call, build, req, best, author, offset, pubsSS, publicationsSS,
                 publicationsCR, publicationsOA, res, saveCalls, saved, asked>>

\* A token that always names the start of the result sequence
RestartToken(c, t, n) ==
  IF c # Empty /\ (timeLeft(t) < 900 \/ n >= MAX_PUBS) THEN Star ELSE Empty

\* a token for every stop by time or cap, the start cursor when none is left
TokenWithoutCursor(c, t, n) ==
  IF timeLeft(t) < 900 \/ n >= MAX_PUBS
  THEN (IF c # Empty THEN c ELSE Star)
  ELSE Empty

\* if (cursor && (timeLeft() < 900 || publications.length >= MAX_PUBS))
NextToken(c, t, n) ==
  IF c # Empty /\ (timeLeft(t) < 900 \/ n >= MAX_PUBS) THEN c ELSE Empty

\* 5) ALWAYS save to DB, 6) continuation token, res.json(...)
SaveAndRespondBudget ==
  /\ pc = "save" /\ build = "budget"
  /\ saveCalls' = saveCalls + 1
  /\ \E out \in SaveOutcomes, d \in SaveDurations :
     \E failed \in Failed(publications, out) :
       /\ saved' = Some(saveFacultyAndPublications(
                           Handed(build, publications), metrics[1], out,
                           failed))
       /\ now' = now + d
       /\ res' = Reply(200, "", NextToken(cursor, now', Len(publications)),
                       author, "")
  /\ pc' = "done"
  /\ UNCHANGED <<db, entry, call, log, build, req, best, author, offset, pubsSS, publicationsSS,
                 publicationsCR, publicationsOA, pubs, cursor, publications,
                 metrics, received, fetched, asked, hung>>

\* The caller posts again with next = the token of the previous response
\* ({ name, affiliation?, department?, next? }, next = { oaCursor } "from
\* previous response"): a new invocation of the handler
Resume ==
  /\ pc = "done" /\ build = "budget"
  /\ res.next # Empty
  /\ log.run < MaxRuns
  /\ req' = [req EXCEPT !.next = res.next]
  /\ log' = [log EXCEPT !.run = @ + 1, !.stopped = ""]
  /\ pc' = "start"
  /\ author' = None
  /\ pubs' = << >>
  /\ cursor' = Empty
  /\ publications' = << >>
  /\ metrics' = None
  /\ res' = NoResponse
  /\ now' = 0
  /\ fetched' = 0
  /\ saveCalls' = 0
  /\ saved' = None
  /\ asked' = {}
  /\ hung' = FALSE
  /\ UNCHANGED <<db, entry, call, build, best, offset, pubsSS, publicationsSS, publicationsCR,
                 publicationsOA, received>>

---------------------------------------------------------------------------

Next ==
  \/ Start
  \/ SSSearchMulti
  \/ SSSearchLegacy
  \/ SSPage
  \/ Crossref
  \/ OASearch
  \/ OAWorks
  \/ Merge
  \/ SSDetail
  \/ OADetail
  \/ SaveAndRespond
  \/ OAAuthorBudget
  \/ WorksPage
  \/ SaveAndRespondBudget

Spec == Init /\ [][Next]_vars

\* a request of any build that names no affiliation
InitLive ==
  /\ Init
  /\ req.affiliation = Empty

\* The handler with its scheduling: every step is the continuation of an
\* awaited promise, which the event loop runs once the promise has settled,
\* and every provider call and the save settle
SpecLive == InitLive /\ [][Next]_vars /\ WF_vars(Next)

---------------------------------------------------------------------------
(* A resumed sequence of calls of the budgeted handler                     *)

InitResume ==
  /\ Init
  /\ build = "budget"
  /\ req.name # Empty
  /\ req.affiliation = Empty

NextResume ==
  \/ Start
  \/ OAAuthorBudget
  \/ WorksPage
  \/ SaveAndRespondBudget
  \/ Resume

SpecResume == InitResume /\ [][NextResume]_vars

---------------------------------------------------------------------------
(* The helper functions called on their own                                *)

\* names a provider or a caller can hand to namesSimilar
NameAK == <<"A", ".", " ", "K", "h", "a", "n", "d", "a", "r", "e">>
NameAnandK == <<"A", "n", "a", "n", "d", " ", "K", "h", "a", "n", "d", "a", "r", "e">>
NameAnandP == <<"A", "n", "a", "n", "d", " ", "P", "a", "t", "e", "l">>
NameAmitK == <<"A", "m", "i", "t", " ", "K", "h", "a", "n", "d", "a", "r", "e">>
NameBK == <<"B", ".", " ", "K", "h", "a", "n", "d", "a", "r", "e">>
NameBinaK == <<"B", "i", "n", "a", " ", "K", "h", "a", "n", "d", "a", "r", "e">>
NameK == <<"K", "h", "a", "n", "d", "a", "r", "e">>
NameShout == <<" ", "A", "N", "A", "N", "D", " ", " ", " ", "k", "h", "a", "n", "d", "a", "r", "e", " ">>
NameBlank == <<" ">>

NameInputs ==
  {Empty, NameAK, NameAnandK, NameAnandP, NameAmitK, NameBK, NameBinaK, NameK, NameShout, NameBlank}

\* namesSimilar as the handler of each build resolves it
namesSimilarOf(b, x, y) ==
  CASE b = "multi" -> namesSimilar(x, y)
    [] b = "legacy" -> namesSimilarLegacy(x, y)
    [] OTHER -> namesSimilarLocal(x, y)

\* the state of every variable of the handler while a helper is called on
\* its own
HandlerIdle ==
  /\ req = [name |-> NameFull, affiliation |-> Empty, department |-> Empty,
            next |-> Empty]
  /\ pc = "call"
  /\ best = None
  /\ author = None
  /\ offset = 0
  /\ pubsSS = << >>
  /\ publicationsSS = << >>
  /\ publicationsCR = << >>
  /\ publicationsOA = << >>
  /\ pubs = << >>
  /\ cursor = Empty
  /\ publications = << >>
  /\ metrics = None
  /\ res = NoResponse
  /\ now = 0
  /\ received = 0
  /\ fetched = 0
  /\ saveCalls = 0
  /\ saved = None
  /\ asked = {}
  /\ hung = FALSE
  /\ log = [run |-> 1, requested |-> << >>, stopped |-> ""]

NameCalls ==
  { [fn |-> "namesSimilar", a |-> x, b |-> y, out |-> None] :
      x \in NameInputs, y \in NameInputs }

\* texts handed to includesAff: an affiliation or institution string
AffTexts == {Empty, InstTCAI, <<"T", "C">>, <<"a", "I">>, <<"x">>}

AffCalls ==
  { [fn |-> "includesAff", text |-> t, aff |-> h[1], dept |-> h[2],
     out |-> None] :
      t \in AffTexts, h \in {Empty, AffTC} \X {Empty, DeptAI} }

\* includesAff as the handler of each build resolves it (part_004 declares
\* the function of part_003 and does not call it)
includesAffOf(b, text, aff, dept) ==
  IF b = "legacy" THEN includesAffLegacy(text, aff, dept)
  ELSE includesAff(text, aff, dept)

\* Candidates of an author search handed to the resolver: Semantic Scholar
\* candidates for the multi-provider builds, OpenAlex candidates for the
\* budgeted build; one more namesake, whose affiliation lacks the department
ResolverCands(b) ==
  IF b = "budget"
  THEN OACands \cup {[id |-> "o4", display_name |-> NameFull, inst |-> AffTC,
                       orcid |-> Empty]}
  ELSE SSCands \cup {[authorId |-> "s4", name |-> NameFull, aliases |-> << >>,
                       affiliations |-> <<AffTC>>]}

\* longest candidate list handed to the resolver on its own
MaxResolved == 3

ResolverCalls(b) ==
  { [fn |-> "resolve", cands |-> c, name |-> NameFull, aff |-> h[1],
     dept |-> h[2], out |-> None] :
      c \in SeqUpTo(ResolverCands(b), MaxResolved) \ {<< >>},
      h \in {Empty, AffTC} \X {Empty, DeptAI} }

\* the score each build gives a candidate
ScoreOf(b, c, name, aff, dept) ==
  IF b = "budget" THEN ScoreOA(c, name, aff, dept, 2)
  ELSE ScoreSS(c, name, aff, dept)

\* the resolver of each build
ResolveOf(b, cands, name, aff, dept) ==
  CASE b = "multi" -> BestSS(cands, name, aff, dept)
    [] b = "legacy" -> BestLegacy(cands, name, aff, dept)
    [] OTHER -> BestOA(cands, name, aff, dept, 2)

\* what an author-detail lookup gives: nothing (not ok, no author found, an
\* exception), or a body
Lookups == {None} \cup {Some(body) : body \in DetailBodies}

\* the metrics block on its own, for the builds that look author details up:
\* the author Semantic Scholar resolved, if any, and what the lookup of each
\* provider gives
MetricsCalls(b) ==
  IF b = "budget" THEN {}
  ELSE { [fn |-> "metrics", best |-> who, ss |-> ss, oa |-> oa, out |-> None] :
           who \in {None} \cup {Some(c) : c \in SSCands},
           ss \in Lookups, oa \in Lookups }

\* the metrics block: the Semantic Scholar lookup when an author id is
\* there, then (server.js) the OpenAlex fallback
metricsOf(b, n, who, ss, oa) ==
  LET m0 == Metrics(n, None, None)
      m1 == IF AsksSS(who) /\ ss # None THEN AfterDetail(m0, ss[1]) ELSE m0
  IN IF b = "legacy" /\ AsksOA(m1, who) /\ oa # None
     THEN AfterDetail(m1, oa[1]) ELSE m1

\* the inner loop of the works loop on its own: a page of the provider and
\* the records accumulated before it, fewer than the cap as the test of the
\* works loop requires
PushCalls(b) ==
  IF b # "budget" THEN {}
  ELSE { [fn |-> "pushBatch", acc |-> MapSeq(before, NormalizeBudget),
          batch |-> batch, orcid |-> o, out |-> None] :
           before \in {l \in SeqUpTo(Works, MAX_PUBS - 1) :
                         \A i \in 1..Len(l) : AttribBudget(l[i], NameFull, Empty)},
           batch \in SeqUpTo(Works, MaxPage),
           o \in {Empty, OrcidQ} }

Calls(b) ==
  NameCalls \cup AffCalls \cup ResolverCalls(b) \cup MetricsCalls(b)
    \cup PushCalls(b)

InitCalls ==
  /\ build \in Builds
  /\ HandlerIdle
  /\ call \in Calls(build)
  /\ db = NoStore
  /\ entry = NoEntry

\* namesSimilar(a, b) returns
ApplyNamesSimilar ==
  /\ pc = "call" /\ call.fn = "namesSimilar" /\ call.out = None
  /\ call' = [call EXCEPT !.out = Some(namesSimilarOf(build, call.a, call.b))]
  /\ UNCHANGED <<db, entry, build, req, pc, best, author, offset, pubsSS, publicationsSS,
                 publicationsCR, publicationsOA, pubs, cursor, publications,
                 metrics, res, now, received, fetched, saveCalls, saved, asked,
                 hung, log>>

\* includesAff(text, aff, dept) returns
ApplyIncludesAff ==
  /\ pc = "call" /\ call.fn = "includesAff" /\ call.out = None
  /\ call' = [call EXCEPT !.out =
                 Some(includesAffOf(build, call.text, call.aff, call.dept))]
  /\ UNCHANGED <<db, entry, build, req, pc, best, author, offset, pubsSS, publicationsSS,
                 publicationsCR, publicationsOA, pubs, cursor, publications,
                 metrics, res, now, received, fetched, saveCalls, saved, asked,
                 hung, log>>

\* the best candidate is chosen
ApplyResolver ==
  /\ pc = "call" /\ call.fn = "resolve" /\ call.out = None
  /\ call' = [call EXCEPT !.out =
                 Some(ResolveOf(build, call.cands, call.name, call.aff,
                                call.dept))]
  /\ UNCHANGED <<db, entry, build, req, pc, best, author, offset, pubsSS, publicationsSS,
                 publicationsCR, publicationsOA, pubs, cursor, publications,
                 metrics, res, now, received, fetched, saveCalls, saved, asked,
                 hung, log>>

\* the metrics of a run with no publication are computed
ApplyMetrics ==
  /\ pc = "call" /\ call.fn = "metrics" /\ call.out = None
  /\ call' = [call EXCEPT !.out =
                 Some(metricsOf(build, 0, call.best, call.ss, call.oa))]
  /\ UNCHANGED <<db, entry, build, req, pc, best, author, offset, pubsSS, publicationsSS,
                 publicationsCR, publicationsOA, pubs, cursor, publications,
                 metrics, res, now, received, fetched, saveCalls, saved, asked,
                 hung, log>>

\* the inner loop has gone through the page
ApplyPushBatch ==
  /\ pc = "call" /\ call.fn = "pushBatch" /\ call.out = None
  /\ call' = [call EXCEPT !.out =
                 Some(PushBatch(call.acc, call.batch, req.name, call.orcid))]
  /\ UNCHANGED <<db, entry, build, req, pc, best, author, offset, pubsSS, publicationsSS,
                 publicationsCR, publicationsOA, pubs, cursor, publications,
                 metrics, res, now, received, fetched, saveCalls, saved, asked,
                 hung, log>>

NextCalls ==
  \/ ApplyNamesSimilar
  \/ ApplyIncludesAff
  \/ ApplyResolver
  \/ ApplyMetrics
  \/ ApplyPushBatch

SpecCalls == InitCalls /\ [][NextCalls]_vars

---------------------------------------------------------------------------
(* persist.js: saveFacultyAndPublications against the store, two callers   *)
(* saving for the same faculty                                             *)

\* publications as the handlers hand them over: doi is '' when the provider
\* gave none (doi: w.doi || ''), never null
PubX == [doi |-> <<"x">>, title |-> <<"T">>, year |-> 2020]
PubT == [doi |-> Empty, title |-> <<"t">>, year |-> 2020]
PubU == [doi |-> Empty, title |-> <<"u">>, year |-> 2021]

StorePubs == {PubX, PubT, PubU}

\* longest publication list of one call
MaxBatch == 2

\* An index that rejects nothing
NoIndex(rows, doi, except) == TRUE

\* CREATE UNIQUE INDEX "Publication_doi_key" ON "Publication"("doi") and
\* "Publication_facultyId_doi_key": no other row carries the doi ('' is a
\* value like any other; only NULLs are distinct)
UniqueDoi(rows, doi, except) ==
  \A k \in 1..Len(rows) : k # except => rows[k].doi # doi

\* prisma.publication.findUnique({ where: { facultyId_doi } }): the row, 0
\* when there is none
findUnique(rows, doi) ==
  IF \E k \in 1..Len(rows) : rows[k].doi = doi
  THEN CHOOSE k \in 1..Len(rows) : rows[k].doi = doi
  ELSE 0

\* prisma.publication.findFirst({ where: { facultyId, title: { equals,
\* mode: 'insensitive' }, year } }): the first such row, 0 when none
findFirst(rows, title, year) ==
  LET hit(k) == toLowerCase(rows[k].title) = toLowerCase(title)
                  /\ rows[k].year = year
  IN IF \E k \in 1..Len(rows) : hit(k)
     THEN CHOOSE k \in 1..Len(rows) :
            hit(k) /\ \A j \in 1..(k - 1) : ~hit(j)
     ELSE 0

\* where the loop over the publications goes next: the first await of the
\* next publication (findUnique only `if (pub.doi)`), or the metrics upsert
NextPub(list, i) ==
  IF i > Len(list) THEN "metrics"
  ELSE IF list[i].doi # Empty THEN "findUnique" ELSE "findFirst"

\* both calls are under way
Overlap(save) ==
  \A c \in Callers : save[c].pc \notin {"off", "start", "done"}

InitStore ==
  /\ build \in Builds
  /\ HandlerIdle
  /\ call = NoCall
  /\ entry = NoEntry
  /\ \E lists \in [Callers -> SeqUpTo(StorePubs, MaxBatch)] :
       db = [NoStore EXCEPT
               !.save = [c \in Callers |->
                           [NoSave EXCEPT !.pc = "start",
                                          !.publications = lists[c]]]]

\* the other variables while the store is at work
StoreOnly ==
  UNCHANGED <<build, req, pc, best, author, offset, pubsSS, publicationsSS,
              publicationsCR, publicationsOA, pubs, cursor, publications,
              metrics, res, now, received, fetched, saveCalls, saved, asked,
              hung, log, call, entry>>

\* db after caller c moved to `to` with its fields and the store changed
Moved(c, to, i, existingPub, savedPublications, rows) ==
  LET save == [db.save EXCEPT ![c] =
                 [pc |-> to, publications |-> db.save[c].publications,
                  i |-> i, existingPub |-> existingPub,
                  savedPublications |-> savedPublications]]
  IN [db EXCEPT !.save = save, !.publication = rows,
                !.overlapped = db.overlapped \/ Overlap(save)]

\* prisma.faculty.upsert on the unique (fullName, college, department)
UpsertFaculty(c) ==
  /\ db.save[c].pc = "start"
  /\ db' = [Moved(c, NextPub(db.save[c].publications, 1), 1, 0, 0,
                  db.publication)
              EXCEPT !.faculty = Max(1, db.faculty)]
  /\ StoreOnly

\* if (pub.doi) existingPub = await prisma.publication.findUnique(...)
FindUnique(c) ==
  LET me == db.save[c]
      pub == me.publications[me.i]
      found == findUnique(db.publication, pub.doi)
  IN /\ me.pc = "findUnique"
     /\ db' = Moved(c, IF found # 0 THEN "write" ELSE "findFirst", me.i,
                    found, me.savedPublications, db.publication)
     /\ StoreOnly

\* if (!existingPub) existingPub = await prisma.publication.findFirst(...)
FindFirst(c) ==
  LET me == db.save[c]
      pub == me.publications[me.i]
  IN /\ me.pc = "findFirst"
     /\ db' = Moved(c, "write", me.i,
                    findFirst(db.publication, pub.title, pub.year),
                    me.savedPublications, db.publication)
     /\ StoreOnly

\* prisma.publication.update / create, then savedPublications.push; a
\* rejected write is caught per publication and the loop goes on
Write(c) ==
  LET me == db.save[c]
      pub == me.publications[me.i]
      rows == db.publication
      ok == UniqueDoi(rows, pub.doi, me.existingPub)
      after == IF ~ok THEN rows
               ELSE IF me.existingPub # 0
                    THEN [rows EXCEPT ![me.existingPub] = pub]
                    ELSE Append(rows, pub)
  IN /\ me.pc = "write"
     /\ db' = Moved(c, NextPub(me.publications, me.i + 1), me.i + 1, 0,
                    me.savedPublications + (IF ok THEN 1 ELSE 0), after)
     /\ StoreOnly

\* prisma.facultyMetrics.upsert on the unique facultyId
UpsertMetrics(c) ==
  /\ db.save[c].pc = "metrics"
  /\ db' = [Moved(c, "done", db.save[c].i, 0, db.save[c].savedPublications,
                  db.publication)
              EXCEPT !.facultyMetrics = Max(1, db.facultyMetrics)]
  /\ StoreOnly

NextStore ==
  \E c \in Callers :
    \/ UpsertFaculty(c)
    \/ FindUnique(c)
    \/ FindFirst(c)
    \/ Write(c)
    \/ UpsertMetrics(c)

SpecStore == InitStore /\ [][NextStore]_vars

---------------------------------------------------------------------------
(* The serverless entry, api/index.js                                      *)

\* messages of the errors import('../server.js') or serverless(app) throw
LoadErrors == {"e1", "e2"}

\* res.status(500).json({ ok: false, error: ... })
Answer500(e) == [status |-> 500, error |-> e, handler |-> 0]

\* return cachedHandler(req, res): the answer is the cached handler's
Delegated(h) == [status |-> 0, error |-> "", handler |-> h]

InitEntry ==
  /\ build = "legacy"
  /\ HandlerIdle
  /\ call = NoCall
  /\ db = NoStore
  /\ entry = NoEntry

\* the other variables while the entry handler is at work
EntryOnly ==
  UNCHANGED <<build, req, pc, best, author, offset, pubsSS, publicationsSS,
              publicationsCR, publicationsOA, pubs, cursor, publications,
              metrics, res, now, received, fetched, saveCalls, saved, asked,
              hung, log, call, db>>

\* invocation i arrives now: those before it have arrived
Arrives(i) ==
  /\ entry.inv[i].pc = "new"
  /\ \A j \in Invocations : j < i => entry.inv[j].pc # "new"

\* some invocation is suspended at await import('../server.js')
Loading == \E j \in Invocations : entry.inv[j].pc = "loading"

\* invocation i with what it found cached on arrival
Arrived(i, to, loaded, answer) ==
  [entry.inv EXCEPT ![i] =
     [pc |-> to, sawHandler |-> entry.cachedHandler,
      sawError |-> entry.cachedError, loaded |-> loaded, answer |-> answer]]

\* if (cachedError) return res.status(500).json(...)
AnswerCachedError(i) ==
  /\ Arrives(i)
  /\ entry.cachedError # None
  /\ entry' = [entry EXCEPT
                 !.inv = Arrived(i, "done", FALSE,
                                 Some(Answer500(entry.cachedError[1])))]
  /\ EntryOnly

\* if (!cachedHandler) { const mod = await import('../server.js'); ...
\* the invocation is suspended until the import settles
BeginLoad(i) ==
  /\ Arrives(i)
  /\ entry.cachedError = None
  /\ entry.cachedHandler = None
  /\ entry' = [entry EXCEPT
                 !.loads = @ + 1,
                 !.overlapped = (@ \/ Loading),
                 !.inv = Arrived(i, "loading", TRUE, None)]
  /\ EntryOnly

\* cachedHandler is set: return cachedHandler(req, res).  The handler
\* serverless-http builds is an async function: it returns a promise and
\* does not throw into the try block
DelegateCached(i) ==
  /\ Arrives(i)
  /\ entry.cachedError = None
  /\ entry.cachedHandler # None
  /\ entry' = [entry EXCEPT
                 !.inv = Arrived(i, "done", FALSE,
                                 Some(Delegated(entry.cachedHandler[1])))]
  /\ EntryOnly

\* the import settled with the module: cachedHandler = serverless(app);
\* return cachedHandler(req, res).  The imports of one specifier share one
\* module record, so the loads under way end the same way
LoadDone(i) ==
  /\ entry.inv[i].pc = "loading"
  /\ entry.module \in {None, Some("ok")}
  /\ entry' = [entry EXCEPT
                 !.module = Some("ok"),
                 !.made = @ + 1,
                 !.cachedHandler = Some(entry.made + 1),
                 !.inv[i].pc = "done",
                 !.inv[i].answer = Some(Delegated(entry.made + 1))]
  /\ EntryOnly

\* the import or serverless(app) threw: catch (err) { cachedError = err;
\* return res.status(500).json(...) }
LoadFailed(i) ==
  /\ entry.inv[i].pc = "loading"
  /\ \E e \in LoadErrors :
       /\ entry.module \in {None, Some(e)}
       /\ entry' = [entry EXCEPT
                      !.module = Some(e),
                      !.cachedError = Some(e),
                      !.inv[i].pc = "done",
                      !.inv[i].answer = Some(Answer500(e))]
  /\ EntryOnly

NextEntry ==
  \E i \in Invocations :
    \/ AnswerCachedError(i)
    \/ BeginLoad(i)
    \/ DelegateCached(i)
    \/ LoadDone(i)
    \/ LoadFailed(i)

SpecEntry == InitEntry /\ [][NextEntry]_vars

---------------------------------------------------------------------------
(* Properties                                                              *)

Done == pc = "done"

\* the merge has run in this state
Merged == metrics # None

\* the state the merge step leaves
JustMerged ==
  \/ build # "budget" /\ pc = "ssDetail"
  \/ build = "budget" /\ pc = "save"

\* the records that reached the merge step, in merge order
Combined ==
  IF build = "budget" THEN pubs
  ELSE publicationsSS \o publicationsCR \o publicationsOA

\* the dedup key and the merge of the deployed build
KeyOf(p) ==
  CASE build = "budget" -> KeyBudget(p)
    [] build = "multi" -> KeyMulti(p)
    [] OTHER -> KeyLegacy(p)

DedupeOf(list) ==
  CASE build = "budget" -> DedupeBudget(list)
    [] build = "multi" -> DedupeMulti(list)
    [] OTHER -> DedupeLegacy(list)

Range(s) == {s[i] : i \in 1..Len(s)}

\* the natural key of spec 4.4: doi, else url, else title+year
NaturalKey(p) ==
  IF p.doi # Empty THEN DoiTag \o toLowerCase(p.doi)
  ELSE IF p.url # Empty THEN UrlTag \o toLowerCase(p.url)
  ELSE TyTag \o toLowerCase(p.title) \o Sep \o YearText(p.year)

\* C1: no two publications of the returned list share a natural key
\* (doi:<doi>, else url:<url>, else ty:<title>::<year>), in any build.
C1_NaturalKeyUnique ==
  Done =>
    \A i, j \in 1..Len(publications) :
      i < j => NaturalKey(publications[i]) # NaturalKey(publications[j])

\* C2: two records that reach the merge with the same non-empty DOI (case
\* ignored) leave exactly one publication with that DOI in the output.
C2_SameDoiCollapses ==
  Merged =>
    \A i, j \in 1..Len(Combined) :
      (/\ i < j
       /\ Combined[i].doi # Empty
       /\ toLowerCase(Combined[i].doi) = toLowerCase(Combined[j].doi))
      => Cardinality({k \in 1..Len(publications) :
            toLowerCase(publications[k].doi) = toLowerCase(Combined[i].doi)}) = 1

\* C3: two records that reach the merge with different non-empty DOIs are
\* never collapsed: the output holds a publication for each of the two DOIs.
C3_DifferentDoiKept ==
  Merged =>
    \A i, j \in 1..Len(Combined) :
      (/\ Combined[i].doi # Empty
       /\ Combined[j].doi # Empty
       /\ toLowerCase(Combined[i].doi) # toLowerCase(Combined[j].doi))
      => \E k \in 1..Len(publications) :
           toLowerCase(publications[k].doi) = toLowerCase(Combined[i].doi)

\* the positions of the concatenated input that hold the first record of
\* their dedup key
FirstPositions ==
  LET input == Combined
      keys == [i \in 1..Len(input) |-> KeyOf(input[i])]
  IN {i \in 1..Len(input) : \A j \in 1..(i - 1) : keys[j] # keys[i]}

\* C4: the merge output is the subsequence of the concatenated input (SS,
\* then Crossref, then OpenAlex) made of the first record of each dedup key
\* (the key the build computes), unchanged and in first-seen order.
C4_FirstSeenWins ==
  Merged =>
    LET first == FirstPositions
        input == Combined
    IN /\ Len(publications) = Cardinality(first)
       /\ \A k \in 1..Len(publications) :
            \E i \in first :
              /\ Cardinality({j \in first : j <= i}) = k
              /\ publications[k] = input[i]

\* C4 witness: a later record of another provider had the key of an
\* earlier one and was dropped
C4_Witness ==
  /\ Done /\ Merged
  /\ Len(Combined) = 2 /\ Len(publications) = 1
  /\ Combined[1].origin # Combined[2].origin
  /\ Combined[1] # [Combined[2] EXCEPT !.origin = Combined[1].origin]

\* the orders of one provider's list
Orders(list) ==
  {[i \in 1..Len(list) |-> list[f[i]]] : f \in Permutations(1..Len(list))}

\* the merge inputs that differ from this run's only in the order of the
\* records inside each provider's list
Reorderings ==
  IF build = "budget" THEN Orders(pubs)
  ELSE {a \o b \o c : a \in Orders(publicationsSS),
                      b \in Orders(publicationsCR),
                      c \in Orders(publicationsOA)}

\* C5 as claimed: with the records of any list permuted, merge yields the
\* same set of canonical publications, and merge of its own output is that
\* output.
C5_OrderInsensitive ==
  JustMerged =>
    /\ \A input \in Reorderings :
         Range(DedupeOf(input)) = Range(publications)
    /\ DedupeOf(publications) = publications

\* keys that two different records of one provider's list carry
Contested ==
  LET clash(list) == {KeyOf(list[i]) : i \in {i \in 1..Len(list) :
                        \E j \in 1..Len(list) :
                          KeyOf(list[j]) = KeyOf(list[i]) /\ list[j] # list[i]}}
  IN IF build = "budget" THEN clash(pubs)
     ELSE clash(publicationsSS) \cup clash(publicationsCR)
            \cup clash(publicationsOA)

\* C5 amended: with the records of any list permuted, merge yields the same
\* set of dedup keys and the same canonical record for every key that no two
\* different records of one list carry; merge of its own output is that
\* output.
C5_OrderInsensitiveKeys ==
  JustMerged =>
    /\ \A input \in Reorderings :
         LET out == DedupeOf(input)
         IN /\ {KeyOf(p) : p \in Range(out)} = {KeyOf(p) : p \in Range(publications)}
            /\ {p \in Range(out) : KeyOf(p) \notin Contested}
                 = {p \in Range(publications) : KeyOf(p) \notin Contested}
    /\ DedupeOf(publications) = publications

\* C5 witness: one list held two records in an order that a permutation
\* changes, and the merge kept both
C5_Witness ==
  /\ JustMerged
  /\ Len(publications) = 2
  /\ publications[1].origin = publications[2].origin
  /\ publications[1] # publications[2]

\* C6: every publication in the merged output, and every publication handed
\* to the persistence call, has a non-empty title.
C6_TitlesNonEmpty ==
  /\ \A i \in 1..Len(publications) : publications[i].title # Empty
  /\ saved # None => \A i \in 1..Len(saved[1].publications) :
                      saved[1].publications[i].title # Empty

\* C7: with the name missing or empty the run never starts: no provider
\* call, no persistence call, and the answer is 400 'Missing name'.
C7_MissingNameRejected ==
  req.name = Empty =>
    /\ asked = {}
    /\ saveCalls = 0
    /\ pc \in {"start", "done"}
    /\ Done => (res.status = 400 /\ res.error = "Missing name")

\* C7 witness: a request without a name was answered
C7_Witness == req.name = Empty /\ Done /\ res.status = 400

\* C8: with a non-empty name the handler answers with a success result,
\* whatever the providers did.
C8_NeverFailsOnProvider ==
  (Done /\ req.name # Empty) => res.status = 200

\* C9: in the multi-provider build a failing provider costs only its own
\* results: the run answers, every provider was consulted, and every record
\* that passed the filters is in the returned list up to its dedup key.
C9_OthersStillReturned ==
  (build = "multi" /\ Done /\ req.name # Empty) =>
    /\ res.status = 200
    /\ asked = {"SS", "CR", "OA"}
    /\ \A i \in 1..Len(Combined) :
         \E k \in 1..Len(publications) :
           KeyOf(publications[k]) = KeyOf(Combined[i])

\* C10: when the first works-page fetch of the budgeted run never returns
\* within its timeout, the run completes within BUDGET_MS and answers with a
\* continuation token and no publications.
C10_HungPageGivesToken ==
  (build = "budget" /\ Done /\ hung /\ fetched = 0) =>
    /\ now <= BUDGET_MS
    /\ res.next # Empty
    /\ publications = << >>

\* the works-page requests of the resumed sequence so far, oldest first
Requested == log.requested

\* the request at position i is the first one of the call in progress
FirstOfThisCall(i) ==
  /\ Requested[i].run = log.run
  /\ i > 1 => Requested[i - 1].run < log.run

\* C11 amended: a call that is handed a token requests first the page the
\* token names, and over a call and its follow-ups the pages are requested
\* in order: after a page that was read the next request is for the page its
\* next_cursor names, after a page that failed it is for that page again; no
\* page is skipped and no page that was read is requested again.  The token
\* can be the start cursor '*', but only when no page was read before it.
C11_ResumesInOrder ==
  \A i \in 1..Len(Requested) :
    /\ (FirstOfThisCall(i) /\ req.next # Empty) => Requested[i].cursor = req.next
    /\ (FirstOfThisCall(i) /\ req.next = Empty) => Requested[i].cursor = Star
    /\ i > 1 =>
         Requested[i].cursor =
           IF Requested[i - 1].ok THEN NextCursor(Requested[i - 1].cursor)
           ELSE Requested[i - 1].cursor
    /\ (i > 1 /\ Requested[i].cursor = Star) =>
         \A j \in 1..(i - 1) : ~Requested[j].ok

\* C11 as claimed: the same, and a call that was handed a token never
\* requests the start cursor '*'.
C11_ResumesNeverAtStart ==
  /\ C11_ResumesInOrder
  /\ \A i \in 1..Len(Requested) :
       Requested[i].run > 1 => Requested[i].cursor # Star

\* C11 witness: the follow-up call requested the page after the last one
\* the first call read
C11_Witness ==
  /\ log.run = 2
  /\ Len(Requested) >= 2
  /\ Requested[Len(Requested)].run = 2
  /\ Requested[Len(Requested) - 1].run = 1
  /\ Requested[Len(Requested) - 1].ok
  /\ Requested[Len(Requested)].cursor # Star

\* C12: when the works loop stops because the accumulated publications
\* reached MAX_PUBS while the provider reported a further page, the response
\* carries the token for that page, whatever time is left.
C12_CapGivesToken ==
  (build = "budget" /\ Done /\ res.status = 200 /\ author # None
     /\ Len(pubs) >= MAX_PUBS /\ cursor # Empty)
  => res.next = cursor

\* C13: for a non-empty name the budgeted run answers no later than
\* BUDGET_MS plus one per-call timeout after it started, whatever the
\* providers do.
C13_AnswersWithinBudget ==
  (build = "budget" /\ Done /\ req.name # Empty)
  => now <= BUDGET_MS + CALL_TIMEOUT_MS

\* a helper returned in this state
Returned(fn) == call.fn = fn /\ call.out # None

\* the tokens of a name, delimited by whitespace and periods
NameTokens(s) == SplitTokens(Normalize(s), {" ", "."})

\* C14: when neither normalized name equals or contains the other,
\* namesSimilar is true only if the last tokens are equal and the first
\* tokens are equal or one is a single letter that is a prefix of the other;
\* ("A. Khandare", "Anand Khandare") matches, ("Anand Khandare",
\* "Anand Patel") does not.
C14_NamesSimilarByTokens ==
  Returned("namesSimilar") =>
    LET A == Normalize(call.a)
        B == Normalize(call.b)
        ap == NameTokens(call.a)
        bp == NameTokens(call.b)
    IN /\ (A # B /\ ~includes(A, B) /\ ~includes(B, A) /\ call.out[1]) =>
            /\ ap # << >> /\ bp # << >>
            /\ ap[Len(ap)] = bp[Len(bp)]
            /\ \/ ap[1] = bp[1]
               \/ Len(ap[1]) = 1 /\ startsWith(bp[1], ap[1])
               \/ Len(bp[1]) = 1 /\ startsWith(ap[1], bp[1])
       /\ (call.a = NameAK /\ call.b = NameAnandK) => call.out[1]
       /\ (call.a = NameAnandK /\ call.b = NameAnandP) => ~call.out[1]

\* C15: namesSimilar is false whenever either argument is empty, or is empty
\* after normalization.
C15_NoMatchOnEmpty ==
  (Returned("namesSimilar")
     /\ (Normalize(call.a) = Empty \/ Normalize(call.b) = Empty))
  => ~call.out[1]

\* C16: includesAff(text, aff, dept) is true exactly when every non-empty
\* hint is a case-insensitive substring of text; with both hints empty it is
\* true for every text, the empty text included.
C16_AffiliationHintsAnded ==
  Returned("includesAff") =>
    call.out[1] =
      (\A hint \in {call.aff, call.dept} :
         hint = Empty \/ includes(toLowerCase(call.text), toLowerCase(hint)))

\* the scores of the candidates of the resolver call
CallScores ==
  [i \in 1..Len(call.cands) |->
     ScoreOf(build, call.cands[i], call.name, call.aff, call.dept)]

\* C17: from a non-empty candidate list the resolver returns a candidate of
\* the highest score, and of those the one that comes first in the list; the
\* first candidate when every score is zero.
C17_FirstHighestScore ==
  Returned("resolve") =>
    \E i \in 1..Len(call.cands) :
      /\ \A j \in 1..Len(call.cands) : CallScores[j] <= CallScores[i]
      /\ \A j \in 1..(i - 1) : CallScores[j] < CallScores[i]
      /\ call.out[1] = Some(call.cands[i])

\* C19: in every successful run totalPublications is the size of the merged
\* set: the returned metrics carry the number of publications returned, and
\* the metrics row the run persisted carries that same number.
C19_TotalIsMergedSize ==
  Merged =>
    /\ metrics[1].totalPublications = Len(publications)
    /\ (saved # None /\ saved[1].metrics # None) =>
         saved[1].metrics[1].totalPublications = Len(publications)

\* what the lookup of a provider supplies for a field, none when it supplies
\* nothing; Semantic Scholar is looked up by the id of the resolved author
SuppliedSS(f) ==
  IF AsksSS(call.best) /\ call.ss # None THEN call.ss[1][f] ELSE None

SuppliedOA(f) == IF call.oa # None THEN call.oa[1][f] ELSE None

\* the first value in priority order: Semantic Scholar, then OpenAlex
FirstSupplied(f) == IF SuppliedSS(f) # None THEN SuppliedSS(f) ELSE SuppliedOA(f)

\* C20: totalCitations and hIndex are none when no provider supplies them,
\* and otherwise the value of the first provider in priority order (Semantic
\* Scholar, then OpenAlex) whose author-detail lookup supplies one.
C20_FirstProviderWins ==
  Returned("metrics") =>
    /\ call.out[1].totalCitations = FirstSupplied("citationCount")
    /\ call.out[1].hIndex = FirstSupplied("hIndex")

\* the ORCID of the author OpenAlex resolved, empty when there is none
ResolvedOrcid == IF author = None THEN Empty ELSE OrcidOf(author[1])

\* the author names of the raw works that each build's namesSimilar takes
\* for each queried name
SimilarNames ==
  LET written == UNION {{w.authors[i].name : i \in 1..Len(w.authors)} :
                          w \in Works}
      queried == UNION {{r.name : r \in Requests(b)} : b \in Builds}
  IN UNION {IF namesSimilarOf(t[1], t[2], t[3]) THEN {t} ELSE {} :
              t \in Builds \X written \X queried}

\* a raw work has an author whose name is similar to the queried name
NameAttributed(w) ==
  \E i \in 1..Len(w.authors) :
    <<build, w.authors[i].name, req.name>> \in SimilarNames

\* a raw work has an authorship whose ORCID is the resolved author's
OrcidAttributed(w) ==
  \E i \in 1..Len(w.authors) :
    /\ w.authors[i].orcid # Empty
    /\ ReplaceFirst(w.authors[i].orcid, OrcidPrefix) = ResolvedOrcid

\* the raw works a publication of the output can come from
RawOf(p) ==
  {w \in Works : w.title = p.title /\ w.year = p.year /\ w.doi = p.doi
                   /\ AuthorNames(w) = p.authors}

\* C18: every publication in the output of a run passed the attribution
\* filter of its adapter: an author whose name is similar to the queried name
\* or, from OpenAlex when the resolved author has an ORCID, an authorship
\* with that ORCID.
C18_OutputAttributed ==
  \A i \in 1..Len(publications) :
    \E w \in RawOf(publications[i]) :
      \/ NameAttributed(w)
      \/ /\ publications[i].origin = "OA"
         /\ ResolvedOrcid # Empty
         /\ OrcidAttributed(w)

\* a run that answered with a publication OpenAlex attributed by ORCID alone,
\* next to works it was handed and left out
C18_Witness ==
  /\ Done /\ res.status = 200
  /\ received > Len(publications)
  /\ \E i \in 1..Len(publications) :
       \A w \in RawOf(publications[i]) : ~NameAttributed(w)

\* the title, year, url, doi and origin of every record of a list
Essentials(list) ==
  [i \in 1..Len(list) |->
     [title |-> list[i].title, year |-> list[i].year, url |-> list[i].url,
      doi |-> list[i].doi, origin |-> list[i].origin]]

\* C21: in every run that produces a merged result the save is invoked
\* exactly once, after the merge, and the publication list it receives is the
\* full merged list that is returned to the caller.
C21_SavedOnceWithMergedList ==
  /\ saveCalls <= 1
  /\ ~Merged => saveCalls = 0
  /\ (Done /\ Merged) =>
       /\ saveCalls = 1
       /\ saved # None
       /\ Essentials(saved[1].publications) = Essentials(publications)

\* a run answered with two publications after one save
C21_Witness ==
  /\ Done /\ Merged /\ res.status = 200
  /\ saveCalls = 1
  /\ Len(publications) = 2

\* the author a run answers with: the Semantic Scholar author in part_003
\* and server.js, the OpenAlex author in part_004
Who == IF build = "budget" THEN author ELSE best

\* C22: a failure of the save never changes the result: whatever the save
\* does, the step that makes it leaves the publications and the metrics as
\* they were and answers with a success status and the resolved author.
C22_SaveFailureKeepsResult ==
  [][pc = "save" =>
       /\ publications' = publications
       /\ metrics' = metrics
       /\ res'.status = 200 /\ res'.error = ""
       /\ res'.author = Who]_vars

\* a run whose save threw answered with an author and a publication
C22_Witness ==
  /\ Done /\ Merged
  /\ saved # None /\ saved[1].metrics = None
  /\ res.status = 200 /\ res.author # None
  /\ publications # << >>

\* the natural key of a stored or supplied publication: DOI, else
\* case-insensitive title and year
StoreKey(p) ==
  IF p.doi # Empty THEN DoiTag \o toLowerCase(p.doi)
  ELSE TyTag \o toLowerCase(p.title) \o Sep \o YearText(p.year)

\* the natural keys the callers supplied
SuppliedKeys ==
  UNION {{StoreKey(db.save[c].publications[i]) :
            i \in 1..Len(db.save[c].publications)} : c \in Callers}

\* no two publication rows of the faculty carry one natural key
NoDuplicateRows ==
  \A i, j \in 1..Len(db.publication) :
    i < j => StoreKey(db.publication[i]) # StoreKey(db.publication[j])

\* both calls returned
AllSaved == \A c \in Callers : db.save[c].pc = "done"

\* C23: saveFacultyAndPublications is idempotent under repeated sequential
\* calls: after them there is one faculty row, one metrics row, no two
\* publication rows of one natural key, and as many publication rows as
\* distinct natural keys were supplied.
C23_Idempotent ==
  (AllSaved /\ ~db.overlapped) =>
    /\ db.faculty = 1
    /\ db.facultyMetrics = 1
    /\ NoDuplicateRows
    /\ Len(db.publication) = Cardinality(SuppliedKeys)

\* C28: two concurrent executions of saveFacultyAndPublications for the same
\* faculty never leave two publication rows of one natural key (same DOI, or
\* without DOI the same case-insensitive title and year).
C28_NoDuplicateRows == NoDuplicateRows

\* both calls found no row for one publication while the other was under
\* way, both went on to create it, and one row is there
C28_Witness ==
  /\ AllSaved /\ db.overlapped
  /\ \A c \in Callers : db.save[c].publications = <<PubX>>
  /\ \E c \in Callers : db.save[c].savedPublications = 0
  /\ db.publication = <<PubX>>

\* a works page was requested in this step
PageRequested == Len(log'.requested) = Len(log.requested) + 1

\* requests go out only while more than the reserve remains
RequestsAboveReserve == [][PageRequested => timeLeft(now) > 1000]_vars

\* the works loop was left by its budget test with a further page known
BudgetStop == build = "budget" /\ log.stopped = "budget" /\ cursor # Empty

\* C24: in the budgeted works loop a page is requested only when more than
\* the reserve of 1000 ms remains, and whenever paging stops for lack of
\* budget with a next cursor known, the response carries a continuation
\* token holding that cursor.
C24_BudgetStopGivesToken ==
  /\ RequestsAboveReserve
  /\ [](Done /\ BudgetStop => res.next = cursor)

\* a provider call of a budgeted run goes out in this step
BudgetCall ==
  /\ build = "budget"
  /\ \/ pc = "oaAuthor" /\ pc' # "oaAuthor"
     \/ PageRequested

\* the call of this step did not settle by itself and ended with its timer
AbortedByTimer == now' = now + Timer(CALL_TIMEOUT_MS, now)

\* C25: every provider call of a budgeted run is issued with a timer that is
\* strictly less than the budget remaining at the moment of the call, and a
\* works-page call that does not settle before its timer is ended by the
\* timer.
C25_TimerBelowBudget ==
  [][BudgetCall =>
       /\ Timer(CALL_TIMEOUT_MS, now) < timeLeft(now)
       /\ (hung' /\ ~hung => AbortedByTimer)]_vars

\* the works-page requests of the call in progress
RequestedNow == SelectSeq(Requested, LAMBDA r : r.run = log.run)

\* the first page the call in progress has not read: the page it was to
\* start at when it requested none, the page after the last one it read, or
\* the page whose request failed
Pending ==
  LET mine == RequestedNow
  IN  IF mine = << >>
      THEN (IF req.next # Empty THEN req.next ELSE Star)
      ELSE IF mine[Len(mine)].ok
           THEN NextCursor(mine[Len(mine)].cursor)
           ELSE mine[Len(mine)].cursor

\* the provider reported no further page to the call in progress
Exhausted == log.stopped = "end" /\ cursor = Empty

\* C26: a budgeted run whose provider signalled exhaustion answers with
\* next none, and a token that is returned holds the cursor of the first
\* page not yet read, never the cursor of a page whose records were
\* accumulated by this run or an earlier one of the sequence.
C26_TokenIsFirstUnread ==
  (Done /\ build = "budget") =>
    /\ Exhausted => res.next = Empty
    /\ res.next # Empty =>
         /\ res.next = Pending
         /\ \A i \in 1..Len(Requested) :
              Requested[i].ok => Requested[i].cursor # res.next

\* a follow-up call read a page, stopped and returned the cursor of the
\* page after it
C26_Witness ==
  /\ Done /\ build = "budget" /\ log.run > 1
  /\ RequestedNow # << >> /\ RequestedNow[Len(RequestedNow)].ok
  /\ res.next # Empty /\ res.next = Pending

\* the inner loop of the works loop has gone through a page
Pushed == call.fn = "pushBatch" /\ call.out # None

\* C27: no attributed publication is lost across continuation.  The cursor
\* moves on after every page that was read and the token names the page
\* after it (C11, C26), so a record can reach an output only through the
\* run that read its page: every record of a page that passes the
\* attribution filter is accumulated by the inner loop, the page during
\* which the cap is reached included.
C27_NoRecordLost ==
  Pushed =>
    Len(call.out[1]) - Len(call.acc) =
      Passing(call.batch, req.name, call.orcid)

\* the Semantic Scholar loop: at most maxPages requests, every page before
\* the last one requested was read and full, and the loop goes on only
\* after such a page
SSLoopBounded ==
  /\ offset <= SS_MAX_PAGES
  /\ offset > 0 => Len(pubsSS) >= (offset - 1) * SS_PAGE
  /\ pc = "ssPage" => Len(pubsSS) = offset * SS_PAGE

\* the OpenAlex cursor loop goes on only with a next cursor, below the cap
\* and after pages that were all read and full
OALoopGoesOn ==
  (build = "budget" /\ pc = "works") =>
    /\ cursor # Empty
    /\ Len(pubs) < MAX_PUBS
    /\ Len(Requested) = fetched
    /\ received = fetched * WORKS_PAGE

\* C29: every paging loop issues a bounded number of requests and every run
\* eventually answers: the Semantic Scholar loop issues at most 5 page
\* requests and stops at the first failed or short page; the OpenAlex cursor
\* loop requests a page only while more than 1000 ms remain and stops when
\* the next cursor is none, a page is short or the cap is reached.
C29_LoopsBoundedRunAnswers ==
  /\ [](SSLoopBounded /\ OALoopGoesOn)
  /\ [][PageRequested => timeLeft(now) > 1000]_vars
  /\ <>Done

\* the Semantic Scholar loop was ended by maxPages after five full pages
\* and the run answered
C29_Witness ==
  /\ Done /\ res.status = 200
  /\ offset = SS_MAX_PAGES
  /\ Len(pubsSS) = SS_MAX_PAGES * SS_PAGE

\* the invocations that have answered
Answered == {i \in Invocations : entry.inv[i].pc = "done"}

\* C30: in the serverless entry handler cachedError and cachedHandler are
\* never both set; once a load has failed the error is sticky: every
\* invocation that arrives later answers 500 with that one error and calls
\* import() no more; once the handler is cached every invocation that
\* arrives later delegates to that one handler and calls import() no more.
C30_EntryCaches ==
  /\ ~(entry.cachedHandler # None /\ entry.cachedError # None)
  /\ \A i \in Answered :
       entry.inv[i].sawError # None =>
         /\ entry.inv[i].answer = Some(Answer500(entry.inv[i].sawError[1]))
         /\ ~entry.inv[i].loaded
         /\ \A j \in Answered :
              entry.inv[j].sawError # None =>
                entry.inv[j].sawError = entry.inv[i].sawError
  /\ \A i \in Answered :
       (entry.inv[i].sawError = None /\ entry.inv[i].sawHandler # None) =>
         /\ entry.inv[i].answer = Some(Delegated(entry.inv[i].sawHandler[1]))
         /\ ~entry.inv[i].loaded
         /\ \A j \in Answered :
              (entry.inv[j].sawError = None /\ entry.inv[j].sawHandler # None)
                => entry.inv[j].sawHandler = entry.inv[i].sawHandler

\* the same while no invocation arrived during the load of another
C30_WithoutOverlap == ~entry.overlapped => C30_EntryCaches

====
